---- MODULE Spec2Model ----
(***************************************************************************)
(* Model of scripts/test_wcp_integration.py: the WCP package validator.    *)
(*                                                                         *)
(* Strings that the code inspects character by character (identifiers,     *)
(* paths, archive member names, field names used with the "in" operator)   *)
(* are sequences of one-character strings.  JSON values are tagged records  *)
(* [t, s, o].  The extracted tree and the contents of the files are         *)
(* revealed when the run first reads them and are kept from then on.        *)
(***************************************************************************)
EXTENDS Integers, Sequences, FiniteSets, TLC

VARIABLES
    pc,          \* position of main()/validate()
    tempDir,     \* self.temp_dir on disk: "none", "exists", "removed"
    errors,      \* self.errors
    warnings,    \* self.warnings
    verdict,     \* value returned by validate(): "none", "True", "False"
    exitCode,    \* process exit status, -1 while running
    attempts,    \* tar invocations made by _extract_wcp, in order
    tree,        \* extracted tree as far as the run has looked at it
    wcpJson,     \* what stage 6 found for wcp.json
    manifest,    \* what json.load returned for profile.json
    profile,     \* profile_data local of validate()
    readable,    \* whether tarfile could read the prefix archive
    members,     \* tar.getmembers() names of the prefix archive
    ran,         \* stages called so far with their return value
    identifier,  \* argument of validate_identifier (grammar specification)
    idResult,    \* its return value
    profResult   \* return value of validate_profile (schema specification)

vars == <<pc, tempDir, errors, warnings, verdict, exitCode, attempts, tree,
          wcpJson, manifest, profile, readable, members, ran, identifier,
          idResult, profResult>>

-----------------------------------------------------------------------------
(* Character strings *)

UpperCase == <<"A","B","C","D","E","F","G","H","I","J","K","L","M",
               "N","O","P","Q","R","S","T","U","V","W","X","Y","Z">>
LowerCase == <<"a","b","c","d","e","f","g","h","i","j","k","l","m",
               "n","o","p","q","r","s","t","u","v","w","x","y","z">>

LowerChar(c) ==
    IF \E i \in 1..Len(UpperCase) : UpperCase[i] = c
    THEN LowerCase[CHOOSE i \in 1..Len(UpperCase) : UpperCase[i] = c]
    ELSE c

\* str.lower()
Lower(s) == [i \in 1..Len(s) |-> LowerChar(s[i])]

\* s[i:].startswith(t), i counted from 1
StartsWithAt(s, i, t) ==
    /\ i + Len(t) - 1 <= Len(s)
    /\ SubSeq(s, i, i + Len(t) - 1) = t

\* str.startswith
StartsWith(s, t) == StartsWithAt(s, 1, t)

\* "t in s" for two strings
IsSubstr(t, s) == \E i \in 1..(Len(s) + 1) : StartsWithAt(s, i, t)

\* list slice xs[:n]
Take(xs, n) == SubSeq(xs, 1, IF Len(xs) < n THEN Len(xs) ELSE n)

\* all sequences over A of length at most n
SeqUpTo(A, n) == UNION {[1..k -> A] : k \in 0..n}

Max(S) == CHOOSE x \in S : \A y \in S : y <= x

HYPHEN == <<"-">>
NL == <<"\n">>

-----------------------------------------------------------------------------
(* WineInfoValidator *)

Digits == {"0","1","2","3","4","5","6","7","8","9"}

\* [0-9\.]
IsVerChar(c) == c \in Digits \cup {"."}

\* (wine|proton|Proton), alternatives in pattern order
Families == << <<"w","i","n","e">>,
               <<"p","r","o","t","o","n">>,
               <<"P","r","o","t","o","n">> >>

\* (x86|x86_64|arm64ec), alternatives in pattern order
Archs == << <<"x","8","6">>,
            <<"x","8","6","_","6","4">>,
            <<"a","r","m","6","4","e","c">> >>

\* "$" without re.MULTILINE: at the end of the string, or just before a
\* newline that is the last character of the string.
DollarAt(s, i) == i = Len(s) + 1 \/ (i = Len(s) /\ s[i] = "\n")

\* length of the longest run of [0-9\.] starting at position i
VerRun(s, i) ==
    Max({k \in 0..(Len(s) + 1 - i) : \A j \in i..(i + k - 1) : IsVerChar(s[j])})

\* the first alternative of a set of alternative indices, 0 if there is none
FirstOrZero(S) == IF S = {} THEN 0 ELSE CHOOSE a \in S : \A b \in S : a <= b

\* the longest repetition of a set of repetition counts, d if there is none
LongestOr(S, d) == IF S = {} THEN d ELSE Max(S)

\* (x86|x86_64|arm64ec)$ at position i: index of the first alternative
\* that lets the rest of the pattern match, 0 if none
MatchArch(s, i) ==
    FirstOrZero({a \in 1..Len(Archs) :
                   StartsWithAt(s, i, Archs[a]) /\ DollarAt(s, i + Len(Archs[a]))})

\* \-(x86|x86_64|arm64ec)$ at position i
MatchTail(s, i) ==
    IF i <= Len(s) /\ s[i] = "-" THEN MatchArch(s, i + 1) ELSE 0

NoSub == [sl |-> -1, a |-> 0]

\* the optional group taken with length k (-1: no way to match)
SubTaken(s, i, k) ==
    IF k = -1 THEN NoSub ELSE [sl |-> k, a |-> MatchTail(s, i + k)]

\* ([0-9\.]+)?\-(arch)$ at position i: greedy, longest group first, then
\* the group left out.  sl = -1 if nothing matches, 0 if the group is absent.
MatchSub(s, i) ==
    SubTaken(s, i, LongestOr({k \in 0..VerRun(s, i) : MatchTail(s, i + k) # 0}, -1))

\* the optional hyphen: m is the match with the hyphen consumed
HyTaken(s, i, m) ==
    IF m.sl # -1
    THEN [hy |-> 1, sl |-> m.sl, a |-> m.a]
    ELSE [hy |-> 0, sl |-> MatchSub(s, i).sl, a |-> MatchSub(s, i).a]

\* \-?([0-9\.]+)?\-(arch)$ at position i: the hyphen is tried first
MatchHy(s, i) ==
    HyTaken(s, i, IF i <= Len(s) /\ s[i] = "-" THEN MatchSub(s, i + 1) ELSE NoSub)

NoVer == [vl |-> 0, hy |-> 0, sl |-> -1, a |-> 0]

\* the version group taken with length k (0: no way to match), m the rest
VerTaken(k, m) ==
    IF k = 0 THEN NoVer ELSE [vl |-> k, hy |-> m.hy, sl |-> m.sl, a |-> m.a]

\* ([0-9\.]+)\-?([0-9\.]+)?\-(arch)$ at position i: greedy version group
VerLen(s, i) ==
    LongestOr({k \in 1..VerRun(s, i) : MatchHy(s, i + k).sl # -1}, 0)

MatchVer(s, i) == VerTaken(VerLen(s, i), MatchHy(s, i + VerLen(s, i)))

NoMatch == [f |-> 0, vl |-> 0, hy |-> 0, sl |-> -1, a |-> 0]

\* the family alternative f taken (0: no match), m the rest
FamilyTaken(f, m) ==
    IF f = 0 THEN NoMatch
    ELSE [f |-> f, vl |-> m.vl, hy |-> m.hy, sl |-> m.sl, a |-> m.a]

FamilyOf(s) ==
    FirstOrZero({f \in 1..Len(Families) :
                   /\ StartsWith(s, Families[f] \o HYPHEN)
                   /\ MatchVer(s, Len(Families[f]) + 2).vl # 0})

\* PATTERN.match(s): the groups' positions, f = 0 when there is no match
PatternMatch(s) ==
    FamilyTaken(FamilyOf(s),
                IF FamilyOf(s) = 0 THEN NoVer
                ELSE MatchVer(s, Len(Families[FamilyOf(s)]) + 2))

\* Optional[str]
None == [some |-> FALSE, v |-> <<>>]
Some(v) == [some |-> TRUE, v |-> v]

NoParsed == [type |-> <<>>, version |-> <<>>, subversion |-> None, arch |-> <<>>]

\* match.group(1) .. match.group(4); v0 and s0 are where groups 2 and 3 start
Groups(s, m, v0, s0) ==
    [type |-> Lower(Families[m.f]),
     version |-> SubSeq(s, v0, v0 + m.vl - 1),
     subversion |-> IF m.sl > 0 THEN Some(SubSeq(s, s0, s0 + m.sl - 1)) ELSE None,
     arch |-> Archs[m.a]]

IdentifierResult(s, m) ==
    IF m.f = 0
    THEN [ok |-> FALSE, some |-> FALSE, parsed |-> NoParsed]
    ELSE [ok |-> TRUE, some |-> TRUE,
          parsed |-> Groups(s, m, Len(Families[m.f]) + 2,
                            Len(Families[m.f]) + 2 + m.vl + m.hy)]

validate_identifier(s) == IdentifierResult(s, PatternMatch(s))

construct_identifier(type_name, version_name) ==
    IF StartsWith(version_name, Lower(type_name) \o HYPHEN)
    THEN version_name
    ELSE Lower(type_name) \o HYPHEN \o version_name

-----------------------------------------------------------------------------
(* JSON values as json.load builds them *)

JNull == [t |-> "null", s |-> <<>>, o |-> <<>>]
JNum(digits) == [t |-> "num", s |-> digits, o |-> <<>>]
JStr(chars) == [t |-> "str", s |-> chars, o |-> <<>>]
JList(items) == [t |-> "list", s |-> <<>>, o |-> items]
JObj(fields) == [t |-> "obj", s |-> <<>>, o |-> fields]

\* the characters of the keys the code looks up
KeyChars ==
    [type |-> <<"t","y","p","e">>,
     versionName |-> <<"v","e","r","s","i","o","n","N","a","m","e">>,
     versionCode |-> <<"v","e","r","s","i","o","n","C","o","d","e">>,
     description |-> <<"d","e","s","c","r","i","p","t","i","o","n">>,
     files |-> <<"f","i","l","e","s">>,
     wine |-> <<"w","i","n","e">>,
     proton |-> <<"p","r","o","t","o","n">>,
     binPath |-> <<"b","i","n","P","a","t","h">>,
     libPath |-> <<"l","i","b","P","a","t","h">>,
     prefixPack |-> <<"p","r","e","f","i","x","P","a","c","k">>]

\* "key in x" raises TypeError unless x is a dict, a list or a str
InRaises(x) == x.t \notin {"obj", "list", "str"}

\* "key in x" for a dict (keys), a list (elements) or a str (substring)
In(key, x) ==
    CASE x.t = "obj" -> key \in DOMAIN x.o
      [] x.t = "list" -> \E i \in 1..Len(x.o) :
                            x.o[i].t = "str" /\ x.o[i].s = KeyChars[key]
      [] x.t = "str" -> IsSubstr(KeyChars[key], x.s)
      [] OTHER -> FALSE

\* x.get(key) raises AttributeError unless x is a dict
GetRaises(x) == x.t # "obj"

\* dict.get(key): None when the key is absent
Get(x, key) == IF key \in DOMAIN x.o THEN x.o[key] ELSE JNull

IsStr(x, chars) == x.t = "str" /\ x.s = chars

\* int(x) succeeds: a number, or a string holding an optionally signed
\* run of digits (blanks and underscores are not among the inputs)
IntCoercible(x) ==
    \/ x.t = "num"
    \/ /\ x.t = "str"
       /\ LET d == IF Len(x.s) > 0 /\ x.s[1] \in {"+", "-"} THEN Tail(x.s) ELSE x.s
          IN Len(d) > 0 /\ \A i \in 1..Len(d) : d[i] \in Digits

-----------------------------------------------------------------------------
(* ContentProfileValidator *)

REQUIRED_FIELDS == <<"type", "versionName", "versionCode", "description", "files">>

WINE == <<"W","i","n","e">>
PROTON == <<"P","r","o","t","o","n">>

VALID_TYPES == <<WINE, PROTON, <<"D","X","V","K">>, <<"V","K","D","3","D">>,
                 <<"B","o","x","6","4">>, <<"W","O","W","B","o","x","6","4">>,
                 <<"F","E","X","C","o","r","e">> >>

required_keys == <<"binPath", "libPath", "prefixPack">>

\* a report entry: what it is about and the value it quotes
Entry(kind, subject, detail) == [kind |-> kind, subject |-> subject, detail |-> detail]

IsWineProton(t) == IsStr(t, WINE) \/ IsStr(t, PROTON)

\* 'wine' if profile_type == 'Wine' else 'proton'
SectionKey(t) == IF IsStr(t, WINE) THEN "wine" ELSE "proton"

\* lines 82-84: one entry per absent required field, in REQUIRED_FIELDS order
MissingFieldErrors(profile_data) ==
    LET absent(f) == ~In(f, profile_data)
        fs == SelectSeq(REQUIRED_FIELDS, absent)
    IN [i \in 1..Len(fs) |-> Entry("missing_field", fs[i], <<>>)]

\* the later checks run although a required field is absent
NeverStops(missing) == FALSE

\* lines 86-87: stop when a required field is absent
StopsAfterRequired(missing) == missing # <<>>

\* lines 90-92
TypeErrors(t) ==
    IF \E i \in 1..Len(VALID_TYPES) : IsStr(t, VALID_TYPES[i])
    THEN <<>> ELSE <<Entry("invalid_type", "type", t.s)>>

\* lines 95-98
VersionCodeErrors(vc) ==
    IF IntCoercible(vc) THEN <<>> ELSE <<Entry("bad_versionCode", "versionCode", vc.s)>>

\* lines 101-102
FilesErrors(f) ==
    IF f.t = "list" THEN <<>> ELSE <<Entry("files_not_array", "files", <<>>)>>

\* lines 113-119 raise TypeError when the section admits no "in"
SectionRaises(profile_data) ==
    LET t == Get(profile_data, "type")
    IN /\ IsWineProton(t)
       /\ SectionKey(t) \in DOMAIN profile_data.o
       /\ InRaises(profile_data.o[SectionKey(t)])

\* lines 105-119
SectionErrors(profile_data) ==
    LET t == Get(profile_data, "type")
        sec == SectionKey(t)
    IN IF ~IsWineProton(t) THEN <<>>
       ELSE IF sec \notin DOMAIN profile_data.o
       THEN <<Entry("missing_section", sec, <<>>)>>
       ELSE LET absent(k) == ~In(k, profile_data.o[sec])
                ks == SelectSeq(required_keys, absent)
            IN [i \in 1..Len(ks) |-> Entry("missing_key", sec, KeyChars[ks[i]])]

\* line 126 raises AttributeError when versionName is no str
VersionNameRaises(profile_data) ==
    /\ IsWineProton(Get(profile_data, "type"))
    /\ Get(profile_data, "versionName").t # "str"

\* lines 122-133
VersionNameErrors(profile_data) ==
    LET t == Get(profile_data, "type")
        version_name == Get(profile_data, "versionName").s
        id == construct_identifier(t.s, version_name)
    IN IF IsWineProton(t) /\ ~validate_identifier(id).ok
       THEN <<Entry("bad_versionName", "versionName", id)>>
       ELSE <<>>

Returned(ok, errs) == [raised |-> FALSE, ok |-> ok, errors |-> errs]
Raised(errs) == [raised |-> TRUE, ok |-> FALSE, errors |-> errs]

validate_profile(profile_data) ==
    IF InRaises(profile_data) THEN Raised(<<>>)
    ELSE LET missing == MissingFieldErrors(profile_data)
         IN IF StopsAfterRequired(missing) THEN Returned(FALSE, missing)
            ELSE IF GetRaises(profile_data) THEN Raised(<<>>)
            ELSE IF SectionRaises(profile_data) \/ VersionNameRaises(profile_data)
                 THEN Raised(<<>>)
            ELSE LET errs == missing
                             \o TypeErrors(Get(profile_data, "type"))
                             \o VersionCodeErrors(Get(profile_data, "versionCode"))
                             \o FilesErrors(Get(profile_data, "files"))
                             \o SectionErrors(profile_data)
                             \o VersionNameErrors(profile_data)
                 IN Returned(Len(errs) = 0, errs)

-----------------------------------------------------------------------------
(* Bounds and inputs of the end-to-end specification *)

\* longest prefix archive of the end-to-end runs
MaxMembers == 2

\* missing_prefix[:5]
SampleSize == 5

P_profile == <<"p","r","o","f","i","l","e",".","j","s","o","n">>
P_bin == <<"b","i","n">>
P_lib == <<"l","i","b">>
P_share == <<"s","h","a","r","e">>
P_opt == <<"o","p","t">>
P_prefix == <<"p","r","e","f","i","x","P","a","c","k",".","t","x","z">>

\* Path / name
Join(dir, name) == dir \o <<"/">> \o name

\* Path.exists, Path.is_dir, Path.is_file on what the tree holds
Exists(k) == k # "absent"
IsDir(k) == k \in {"dir", "emptydir"}
IsFile(k) == k = "file"

\* outcomes of one subprocess.run(['tar', ...], timeout=60)
\*   ok: returncode 0          nonzero: returncode # 0
\*   timeout: TimeoutExpired   notfound: FileNotFoundError
\*   oserror: any other exception (it reaches the outer handler)
Outcomes == {"ok", "nonzero", "timeout", "notfound", "oserror"}

\* member names: under .wine/, the root marker, ./-rooted, and two others
M_wine == <<".","w","i","n","e","/","a">>
M_dot == <<".">>
M_dotb == <<".","/","b">>
M_etc == <<"e","t","c">>
M_usr == <<"u","s","r">>
MemberNames == {M_wine, M_dot, M_dotb, M_etc, M_usr}

\* the end-to-end runs read archives over three of the names
Archives == SeqUpTo({M_wine, M_dotb, M_etc}, MaxMembers)

V_good == <<"8",".","0","-","x","8","6","_","6","4">>
V_qualified == <<"w","i","n","e","-","8",".","0","-","2","1","-","a","r","m","6","4","e","c">>
V_noarch == <<"8",".","0">>

Override(f, k, v) == [x \in DOMAIN f \cup {k} |-> IF x = k THEN v ELSE f[x]]
Drop(f, k) == [x \in DOMAIN f \ {k} |-> f[x]]

BaseSection ==
    [binPath |-> JStr(P_bin), libPath |-> JStr(P_lib), prefixPack |-> JStr(P_prefix)]

BaseWine ==
    [type |-> JStr(WINE), versionName |-> JStr(V_good), versionCode |-> JNum(<<"1">>),
     description |-> JStr(<<"d">>), files |-> JList(<<>>), wine |-> JObj(BaseSection)]

BaseProton == Override(Drop(BaseWine, "wine"), "type", JStr(PROTON))
                  @@ [proton |-> JObj(BaseSection)]

BaseDxvk == Override(Drop(BaseWine, "wine"), "type", JStr(<<"D","X","V","K">>))

AllKeyNames == JList(<<JStr(KeyChars.binPath), JStr(KeyChars.libPath),
                       JStr(KeyChars.prefixPack)>>)

AllFieldNames == [i \in 1..Len(REQUIRED_FIELDS) |-> JStr(KeyChars[REQUIRED_FIELDS[i]])]

\* the manifests of the end-to-end runs: the well-formed ones, each with
\* one defect, and the JSON documents that are no object
Profiles ==
    {JObj(BaseWine), JObj(BaseProton), JObj(BaseDxvk)}
    \cup {JObj(Drop(BaseWine, f)) : f \in {"type", "versionName", "files", "wine"}}
    \cup {JObj(Override(BaseWine, "versionName", v)) :
            v \in {JStr(V_qualified), JStr(V_noarch), JStr(V_good \o NL), JNull}}
    \cup {JObj(Override(BaseDxvk, "versionName", JNull)),
          JObj(Override(BaseWine, "type", JStr(<<"w","i","n","e">>))),
          JObj(Override(BaseWine, "versionCode", JStr(<<"a">>))),
          JObj(Override(BaseWine, "files", JNull))}
    \cup {JObj(Override(BaseWine, "wine", sec)) :
            sec \in {JNull, JNum(<<"5">>), AllKeyNames, JObj(Drop(BaseSection, "libPath"))}}
    \cup {JObj(Override(BaseWine, "wine", JObj(Override(BaseSection, k, v)))) :
            k \in {"binPath", "libPath", "prefixPack"}, v \in {JNull, JStr(P_opt)}}
    \cup {JNull, JNum(<<"5">>), JStr(<<"x">>), JList(<<>>), JList(AllFieldNames)}

NoJson == [t |-> "none", s |-> <<>>, o |-> <<>>]
BadJson == [t |-> "invalid", s |-> <<>>, o |-> <<>>]

-----------------------------------------------------------------------------
(* WCPValidator: the stages as functions of what they read *)

Stages == <<"extract", "check_profile", "profile_structure",
            "wine_proton_files", "prefix_pack", "directory_structure">>

\* return value of a stage
StageRet(r, errs, warns) == [ret |-> r, errs |-> errs, warns |-> warns]

\* both attempts failed and nothing was reported
NothingReported == <<>>

\* lines 233-234
BothFailedErrors == <<Entry("extract_failed", "tar", <<"zstd", "xz">>)>>

\* line 228
XzWarnings == <<Entry("xz_used", "tar", <<"xz">>)>>

\* an inner handler that lets TimeoutExpired through
SwallowedNoTimeout(o) == o = "notfound"

\* lines 215, 230: the exceptions the inner handlers swallow
SwallowedByAttempt(o) == o \in {"timeout", "notfound"}

\* lines 219-231: the xz attempt
XzFallback(z, x) ==
    LET tried == <<[codec |-> "zstd", outcome |-> z], [codec |-> "xz", outcome |-> x]>>
    IN IF x = "ok"
       THEN StageRet("True", <<>>, XzWarnings) @@ [tried |-> tried]
       ELSE IF x = "nonzero" \/ SwallowedByAttempt(x)
       THEN StageRet("False", BothFailedErrors, <<>>) @@ [tried |-> tried]
       ELSE StageRet("False", <<Entry("extract_exception", "tar", <<"xz">>)>>, <<>>)
                @@ [tried |-> tried]

\* _extract_wcp, z and x the outcomes of the zstd and of the xz invocation
extract_wcp(z, x) ==
    LET first == <<[codec |-> "zstd", outcome |-> z]>>
    IN IF z = "ok"
       THEN StageRet("True", <<>>, <<>>) @@ [tried |-> first]
       ELSE IF z = "nonzero" \/ SwallowedByAttempt(z)
       THEN XzFallback(z, x)
       ELSE StageRet("False", <<Entry("extract_exception", "tar", <<"zstd">>)>>, <<>>)
                @@ [tried |-> first]

\* _check_profile_exists, k what the tree holds at profile.json
check_profile_exists(k) ==
    IF ~Exists(k)
    THEN StageRet("False", <<Entry("profile_missing", "profile.json", <<>>)>>, <<>>)
    ELSE StageRet("True", <<>>, <<>>)

\* "if not profile_data" in validate(): None and the empty dict are false
Truthy(profile_data) == profile_data.t = "obj" /\ DOMAIN profile_data.o # {}

\* _validate_profile_structure, k the kind of profile.json and content what
\* json.load makes of it; data is the value returned (NoJson for None)
validate_profile_structure(k, content) ==
    IF ~IsFile(k)
    THEN StageRet("False", <<Entry("profile_unreadable", "profile.json", <<>>)>>, <<>>)
             @@ [data |-> NoJson]
    ELSE IF content.t = "invalid"
    THEN StageRet("False", <<Entry("profile_bad_json", "profile.json", <<>>)>>, <<>>)
             @@ [data |-> NoJson]
    ELSE LET r == validate_profile(content)
         IN IF r.raised
            THEN StageRet("raised", <<>>, <<>>) @@ [data |-> NoJson]
            ELSE IF ~r.ok
            THEN StageRet("False", r.errors, <<>>) @@ [data |-> NoJson]
            ELSE IF Get(content, "versionName").t # "str"
            THEN StageRet("raised", <<>>, <<>>) @@ [data |-> NoJson]
            ELSE StageRet(IF Truthy(content) THEN "True" ELSE "False", <<>>, <<>>)
                     @@ [data |-> content]

\* the three declared paths of lines 301-303 with the kind each must have
DeclaredPaths(profile_data) ==
    LET section_data == Get(profile_data, SectionKey(Get(profile_data, "type")))
    IN <<[field |-> "binPath", value |-> Get(section_data, "binPath"), dir |-> TRUE],
         [field |-> "libPath", value |-> Get(section_data, "libPath"), dir |-> TRUE],
         [field |-> "prefixPack", value |-> Get(section_data, "prefixPack"), dir |-> FALSE]>>

\* lines 307, 314, 321
CheckFails(d, k) == ~Exists(k) \/ (IF d.dir THEN ~IsDir(k) ELSE ~IsFile(k))

\* number of checks made before "Path / value" raises TypeError
ChecksMade(ds) ==
    LET bad == {i \in 1..Len(ds) : ds[i].value.t # "str"}
    IN IF bad = {} THEN Len(ds) ELSE (CHOOSE i \in bad : \A j \in bad : i <= j) - 1

\* lines 305-324, t the kinds of the paths looked at
FileCheckErrors(profile_data, t) ==
    LET ds == DeclaredPaths(profile_data)
        sec == SectionKey(Get(profile_data, "type"))
        failing(d) == CheckFails(d, t[d.value.s])
        bad == SelectSeq(SubSeq(ds, 1, ChecksMade(ds)), failing)
    IN [i \in 1..Len(bad) |-> Entry("not_" \o (IF bad[i].dir THEN "dir" ELSE "file"),
                                    sec \o "." \o bad[i].field, bad[i].value.s)]

\* the paths _validate_wine_proton_files looks at
FilePaths(profile_data) ==
    IF ~IsWineProton(Get(profile_data, "type")) THEN {}
    ELSE IF GetRaises(Get(profile_data, SectionKey(Get(profile_data, "type")))) THEN {}
    ELSE LET ds == DeclaredPaths(profile_data)
         IN {ds[i].value.s : i \in 1..ChecksMade(ds)}

\* _validate_wine_proton_files, before the errors it found so far
validate_wine_proton_files(profile_data, t, before) ==
    IF ~IsWineProton(Get(profile_data, "type")) THEN StageRet("True", <<>>, <<>>)
    ELSE IF GetRaises(Get(profile_data, SectionKey(Get(profile_data, "type"))))
    THEN StageRet("raised", <<>>, <<>>)
    ELSE LET errs == FileCheckErrors(profile_data, t)
         IN IF ChecksMade(DeclaredPaths(profile_data)) < 3
            THEN StageRet("raised", errs, <<>>)
            ELSE StageRet(IF Len(before \o errs) = 0 THEN "True" ELSE "False", errs, <<>>)

\* line 361
HasWinePrefix(ms) == \E i \in 1..Len(ms) : StartsWith(ms[i], <<".","w","i","n","e","/">>)

\* lines 361-364: the members that are neither under .wine/ nor the root
\* marker nor ./-rooted, in archive order
MissingPrefix(ms) ==
    LET outside(m) == /\ ~StartsWith(m, <<".","w","i","n","e","/">>)
                      /\ m # <<".">>
                      /\ ~StartsWith(m, <<".","/">>)
    IN SelectSeq(ms, outside)

\* line 366
PrefixRejected(ms) == ~HasWinePrefix(ms) /\ MissingPrefix(ms) # <<>>

\* a sample one path short
SampleShort(missing_prefix) == Take(missing_prefix, SampleSize - 1)

\* line 369
Sample(missing_prefix) == Take(missing_prefix, SampleSize)

\* lines 351-354
EmptyPackWarnings == <<Entry("prefix_empty", "prefixPack", <<>>)>>

\* _validate_prefix_pack, k the kind of the prefix file, rd whether
\* tarfile.open and getmembers succeed, ms the member names
validate_prefix_pack(profile_data, k, rd, ms) ==
    IF ~IsWineProton(Get(profile_data, "type")) THEN StageRet("True", <<>>, <<>>)
    ELSE IF ~Exists(k) THEN StageRet("False", <<>>, <<>>)
    ELSE IF ~rd
    THEN StageRet("False", <<Entry("prefix_unreadable", "prefixPack", <<>>)>>, <<>>)
    ELSE IF ms = <<>> THEN StageRet("True", <<>>, EmptyPackWarnings)
    ELSE IF PrefixRejected(ms)
    THEN StageRet("False", <<Entry("prefix_outside", "prefixPack", Sample(MissingPrefix(ms)))>>, <<>>)
    ELSE StageRet("True", <<>>, <<>>)

critical_binaries == << <<"w","i","n","e">>, <<"w","i","n","e","6","4">>,
                        <<"w","i","n","e","s","e","r","v","e","r">> >>

wine_subdirs == << <<"w","i","n","e">>, <<"w","i","n","e","6","4">> >>

expected_dirs == <<P_bin, P_lib, P_share>>

\* lines 396-399
ExpectedDirWarnings(t) ==
    LET absent(d) == ~Exists(t[d])
        ds == SelectSeq(expected_dirs, absent)
    IN [i \in 1..Len(ds) |-> Entry("dir_missing", "root", ds[i])]

\* lines 404-413, w what wcp.json is: "absent", "valid" or "invalid"
WcpWarnings(w) ==
    IF w = "invalid" THEN <<Entry("wcp_unparsed", "wcp.json", <<>>)>> ELSE <<>>

\* lines 416-430
BinaryWarnings(t) ==
    LET present(b) == Exists(t[Join(P_bin, b)])
    IN IF Exists(t[P_bin]) /\ SelectSeq(critical_binaries, present) = <<>>
       THEN <<Entry("no_binaries", "bin", <<>>)>> ELSE <<>>

\* a search that looks at the first candidate of wine_subdirs only
LibraryWarningsFirstOnly(t) ==
    IF Exists(t[P_lib]) /\ t[Join(P_lib, wine_subdirs[1])] # "dir"
    THEN <<Entry("no_libraries", "lib", <<>>)>> ELSE <<>>

\* lines 433-451: a candidate counts when it is a directory with entries
LibraryWarnings(t) ==
    LET found == \E i \in 1..Len(wine_subdirs) : t[Join(P_lib, wine_subdirs[i])] = "dir"
    IN IF Exists(t[P_lib]) /\ ~found
       THEN <<Entry("no_libraries", "lib", <<>>)>> ELSE <<>>

\* _validate_directory_structure, before the errors found so far
validate_directory_structure(t, w, before) ==
    LET errs == IF ~Exists(t[P_profile])
                THEN <<Entry("root_missing", "profile.json", <<>>)>> ELSE <<>>
        warns == ExpectedDirWarnings(t) \o WcpWarnings(w)
                     \o BinaryWarnings(t) \o LibraryWarnings(t)
    IN StageRet(IF Len(before \o errs) = 0 THEN "True" ELSE "False", errs, warns)

-----------------------------------------------------------------------------
(* main() and validate() *)

\* the stage validate() calls after a stage returned True
Following(stage) ==
    CASE stage = "extract" -> "check_profile"
      [] stage = "check_profile" -> "profile_structure"
      [] stage = "profile_structure" -> "wine_proton_files"
      [] stage = "wine_proton_files" -> "prefix_pack"
      [] stage = "prefix_pack" -> "directory_structure"
      [] OTHER -> "final"

\* a validate() that goes on after a failed file-tree or prefix-archive stage
NextPcNoShortCircuit(stage, ret) ==
    CASE ret = "raised" -> "raised"
      [] ret = "False" /\ stage \notin {"wine_proton_files", "prefix_pack"} -> "returned"
      [] OTHER -> Following(stage)

\* lines 173-195: "if not stage(): return False"; an exception propagates
NextPc(stage, ret) ==
    CASE ret = "raised" -> "raised"
      [] ret = "False" -> "returned"
      [] OTHER -> Following(stage)

\* an __exit__ that leaves the directory behind
KeepTree(d) == d

\* __exit__: shutil.rmtree when the directory is there
RmTree(d) == IF d = "exists" THEN "removed" ELSE d

\* sys.exit(0 if success else 1)
ExitStatus(success) == IF success = "True" THEN 0 ELSE 1

\* what the tree holds at p: what was seen before, else any of kinds
Looks(p, kinds) == IF p \in DOMAIN tree THEN {tree[p]} ELSE kinds

PlainKinds == {"absent", "file", "dir"}

\* what bin/ holds of critical_binaries in the runs: none, wine,
\* wineserver, or all three
BinContents ==
    {[i \in 1..3 |-> IF i \in has THEN "file" ELSE "absent"] :
        has \in {{}, {1}, {3}, {1, 2, 3}}}

\* what lib/ holds of wine_subdirs in the runs: lib/wine absent, empty or
\* with entries, lib/wine64 absent or with entries
LibContents ==
    {<<a, b>> : a \in {"absent", "emptydir", "dir"}, b \in {"absent", "dir"}}

Init ==
    /\ pc = "main"
    /\ tempDir = "none"
    /\ errors = <<>>
    /\ warnings = <<>>
    /\ verdict = "none"
    /\ exitCode = -1
    /\ attempts = <<>>
    /\ tree = <<>>
    /\ wcpJson = "unread"
    /\ manifest = NoJson
    /\ profile = NoJson
    /\ readable = "unread"
    /\ members = <<>>
    /\ ran = <<>>
    /\ identifier = <<>>
    /\ idResult = [ok |-> FALSE, some |-> FALSE, parsed |-> NoParsed]
    /\ profResult = Returned(FALSE, <<>>)

\* a stage returned r: the report grows and validate() goes on or returns
Finish(stage, r) ==
    /\ errors' = errors \o r.errs
    /\ warnings' = warnings \o r.warns
    /\ ran' = Append(ran, [stage |-> stage, ret |-> r.ret])
    /\ pc' = NextPc(stage, r.ret)
    /\ verdict' = IF NextPc(stage, r.ret) = "returned" THEN "False" ELSE verdict

\* lines 479-482
UsageError ==
    /\ pc = "main"
    /\ pc' = "done"
    /\ exitCode' = 1
    /\ UNCHANGED <<tempDir, errors, warnings, verdict, attempts, tree, wcpJson,
                   manifest, profile, readable, members, ran, identifier, idResult, profResult>>

\* line 491: WCPValidator(wcp_file).__enter__()
Enter ==
    /\ pc = "main"
    /\ tempDir' = "exists"
    /\ pc' = "validate"
    /\ UNCHANGED <<errors, warnings, verdict, exitCode, attempts, tree, wcpJson,
                   manifest, profile, readable, members, ran, identifier, idResult, profResult>>

\* lines 165-170
ValidateEntry ==
    /\ pc = "validate"
    /\ \E exists \in BOOLEAN :
          IF exists
          THEN pc' = "extract" /\ UNCHANGED <<errors, verdict>>
          ELSE /\ errors' = Append(errors, Entry("wcp_missing", "wcp", <<>>))
               /\ verdict' = "False"
               /\ pc' = "returned"
    /\ UNCHANGED <<tempDir, warnings, exitCode, attempts, tree, wcpJson,
                   manifest, profile, readable, members, ran, identifier, idResult, profResult>>

ExtractWcp ==
    /\ pc = "extract"
    /\ \E z \in Outcomes, x \in Outcomes :
          LET r == extract_wcp(z, x)
          IN Finish("extract", r) /\ attempts' = r.tried
    /\ UNCHANGED <<tempDir, exitCode, tree, wcpJson, manifest, profile, readable, members,
                   identifier, idResult, profResult>>

CheckProfileExists ==
    /\ pc = "check_profile"
    /\ \E k \in Looks(P_profile, PlainKinds) :
          /\ tree' = (P_profile :> k) @@ tree
          /\ Finish("check_profile", check_profile_exists(k))
    /\ UNCHANGED <<tempDir, exitCode, attempts, wcpJson, manifest, profile, readable, members,
                   identifier, idResult, profResult>>

ValidateProfileStructure ==
    /\ pc = "profile_structure"
    /\ \E content \in (IF IsFile(tree[P_profile]) THEN Profiles \cup {BadJson} ELSE {NoJson}) :
          LET r == validate_profile_structure(tree[P_profile], content)
          IN /\ manifest' = content
             /\ profile' = r.data
             /\ Finish("profile_structure", r)
    /\ UNCHANGED <<tempDir, exitCode, attempts, tree, wcpJson, readable, members,
                   identifier, idResult, profResult>>

ValidateWineProtonFiles ==
    /\ pc = "wine_proton_files"
    /\ \E t \in [FilePaths(profile) -> PlainKinds] :
          /\ \A p \in FilePaths(profile) : t[p] \in Looks(p, PlainKinds)
          /\ tree' = t @@ tree
          /\ Finish("wine_proton_files", validate_wine_proton_files(profile, t, errors))
    /\ UNCHANGED <<tempDir, exitCode, attempts, wcpJson, manifest, profile, readable, members,
                   identifier, idResult, profResult>>

\* _validate_prefix_pack reading an archive out of archives
PrefixPackStage(archives) ==
    /\ pc = "prefix_pack"
    /\ IF IsWineProton(Get(profile, "type"))
       THEN LET p == Get(Get(profile, SectionKey(Get(profile, "type"))), "prefixPack").s
            IN \E rd \in BOOLEAN, ms \in archives :
                  /\ rd \/ ms = <<>>
                  /\ readable' = IF rd THEN "yes" ELSE "no"
                  /\ members' = ms
                  /\ Finish("prefix_pack", validate_prefix_pack(profile, tree[p], rd, ms))
       ELSE /\ UNCHANGED <<readable, members>>
            /\ Finish("prefix_pack", validate_prefix_pack(profile, "absent", FALSE, <<>>))
    /\ UNCHANGED <<tempDir, exitCode, attempts, tree, wcpJson, manifest, profile,
                   identifier, idResult, profResult>>

ValidatePrefixPack == PrefixPackStage(Archives)

ValidateDirectoryStructure ==
    /\ pc = "directory_structure"
    /\ \E kb \in Looks(P_bin, PlainKinds), kl \in Looks(P_lib, PlainKinds),
          ks \in Looks(P_share, {"absent", "dir"}),
          w \in {"absent", "valid", "invalid"} :
        \E bins \in (IF kb = "dir" THEN BinContents ELSE {[i \in 1..3 |-> "absent"]}),
           libs \in (IF kl = "dir" THEN LibContents ELSE {[i \in 1..2 |-> "absent"]}) :
          LET t == (P_bin :> kb) @@ (P_lib :> kl) @@ (P_share :> ks)
                   @@ [p \in {Join(P_bin, critical_binaries[i]) : i \in 1..3} |->
                         bins[CHOOSE i \in 1..3 : Join(P_bin, critical_binaries[i]) = p]]
                   @@ [p \in {Join(P_lib, wine_subdirs[i]) : i \in 1..2} |->
                         libs[CHOOSE i \in 1..2 : Join(P_lib, wine_subdirs[i]) = p]]
                   @@ tree
          IN /\ tree' = t
             /\ wcpJson' = w
             /\ Finish("directory_structure", validate_directory_structure(t, w, errors))
    /\ UNCHANGED <<tempDir, exitCode, attempts, manifest, profile, readable, members,
                   identifier, idResult, profResult>>

\* line 197
ValidateReturn ==
    /\ pc = "final"
    /\ verdict' = IF Len(errors) = 0 THEN "True" ELSE "False"
    /\ pc' = "returned"
    /\ UNCHANGED <<tempDir, errors, warnings, exitCode, attempts, tree, wcpJson,
                   manifest, profile, readable, members, ran, identifier, idResult, profResult>>

\* lines 493-495: print_results(), then sys.exit raises SystemExit
PrintResultsAndExit ==
    /\ pc = "returned"
    /\ exitCode' = ExitStatus(verdict)
    /\ pc' = "exiting"
    /\ UNCHANGED <<tempDir, errors, warnings, verdict, attempts, tree, wcpJson,
                   manifest, profile, readable, members, ran, identifier, idResult, profResult>>

\* __exit__, entered with SystemExit or with the exception a stage raised
ExitScope ==
    /\ pc \in {"exiting", "raised"}
    /\ tempDir' = RmTree(tempDir)
    /\ exitCode' = IF pc = "raised" THEN 1 ELSE exitCode
    /\ pc' = "done"
    /\ UNCHANGED <<errors, warnings, verdict, attempts, tree, wcpJson,
                   manifest, profile, readable, members, ran, identifier, idResult, profResult>>

Next ==
    \/ UsageError
    \/ Enter
    \/ ValidateEntry
    \/ ExtractWcp
    \/ CheckProfileExists
    \/ ValidateProfileStructure
    \/ ValidateWineProtonFiles
    \/ ValidatePrefixPack
    \/ ValidateDirectoryStructure
    \/ ValidateReturn
    \/ PrintResultsAndExit
    \/ ExitScope

Spec == Init /\ [][Next]_vars

-----------------------------------------------------------------------------
(* The identifier grammar on its own: validate_identifier applied to the    *)
(* strings put together from well-formed and ill-formed parts.              *)

\* longest version token of the grammar inputs
MaxVersionLen == 2

\* longest subversion token of the grammar inputs
MaxSubLen == 1

IdInputs ==
    {pre \o fam \o sep1 \o ver \o mid \o sub \o sep2 \o arch \o suf :
        pre \in {<<>>, <<" ">>},
        fam \in {Families[1], Families[2], Families[3], WINE},
        sep1 \in {HYPHEN, <<>>},
        ver \in SeqUpTo({"8", "."}, MaxVersionLen),
        mid \in {<<>>, HYPHEN, HYPHEN \o HYPHEN},
        sub \in SeqUpTo({"2", "."}, MaxSubLen),
        sep2 \in {HYPHEN, <<>>},
        arch \in {Archs[1], Archs[2], Archs[3], <<"a","r","m","6","4">>, <<>>},
        suf \in {<<>>, NL, <<" ">>, <<"x">>, NL \o NL}}

InitId ==
    /\ pc = "id_input"
    /\ identifier \in IdInputs
    /\ tempDir = "none"
    /\ errors = <<>>
    /\ warnings = <<>>
    /\ verdict = "none"
    /\ exitCode = -1
    /\ attempts = <<>>
    /\ tree = <<>>
    /\ wcpJson = "unread"
    /\ manifest = NoJson
    /\ profile = NoJson
    /\ readable = "unread"
    /\ members = <<>>
    /\ ran = <<>>
    /\ idResult = [ok |-> FALSE, some |-> FALSE, parsed |-> NoParsed]
    /\ profResult = Returned(FALSE, <<>>)

ValidateIdentifierCall ==
    /\ pc = "id_input"
    /\ idResult' = validate_identifier(identifier)
    /\ pc' = "id_done"
    /\ UNCHANGED <<tempDir, errors, warnings, verdict, exitCode, attempts, tree,
                   wcpJson, manifest, profile, readable, members, ran, identifier,
                   profResult>>

SpecId == InitId /\ [][ValidateIdentifierCall]_vars

-----------------------------------------------------------------------------
(* The manifest schema on its own: validate_profile applied to JSON         *)
(* documents with every combination of absent, good and bad fields.         *)

Unset == NoJson

\* the object holding the fields of f that are set
Present(f) == JObj([k \in {x \in DOMAIN f : f[x].t # "none"} |-> f[k]])

ProfileInputs ==
    {Present([type |-> a, versionName |-> b, versionCode |-> c, description |-> d,
              files |-> e, wine |-> w, proton |-> q]) :
        a \in {Unset, JStr(WINE), JStr(PROTON), JStr(<<"D","X","V","K">>),
               JStr(<<"w","i","n","e">>), JNull},
        b \in {Unset, JStr(V_good), JStr(V_noarch), JNull},
        c \in {Unset, JNum(<<"1">>), JStr(<<"a">>), JNull},
        d \in {Unset, JStr(<<"d">>)},
        e \in {Unset, JList(<<>>), JNull},
        w \in {Unset, JObj(BaseSection), JObj(Drop(BaseSection, "libPath")), JNum(<<"5">>)},
        q \in {Unset, JObj(BaseSection)}}
    \cup {JNull, JNum(<<"5">>), JStr(<<"x">>), JList(<<>>), JList(AllFieldNames)}

InitProfile ==
    /\ pc = "profile_input"
    /\ manifest \in ProfileInputs
    /\ tempDir = "none"
    /\ errors = <<>>
    /\ warnings = <<>>
    /\ verdict = "none"
    /\ exitCode = -1
    /\ attempts = <<>>
    /\ tree = <<>>
    /\ wcpJson = "unread"
    /\ profile = NoJson
    /\ readable = "unread"
    /\ members = <<>>
    /\ ran = <<>>
    /\ identifier = <<>>
    /\ idResult = [ok |-> FALSE, some |-> FALSE, parsed |-> NoParsed]
    /\ profResult = Returned(FALSE, <<>>)

ValidateProfileCall ==
    /\ pc = "profile_input"
    /\ profResult' = validate_profile(manifest)
    /\ pc' = "profile_done"
    /\ UNCHANGED <<tempDir, errors, warnings, verdict, exitCode, attempts, tree,
                   wcpJson, manifest, profile, readable, members, ran, identifier,
                   idResult>>

SpecProfile == InitProfile /\ [][ValidateProfileCall]_vars

-----------------------------------------------------------------------------
(* The prefix-archive stage on longer archives: validate() has reached      *)
(* step 5 for a well-formed Wine or Proton package, by either codec.        *)

\* longest prefix archive of the prefix-stage runs
MaxDeepMembers == 6

DeepArchives == SeqUpTo(MemberNames, MaxDeepMembers)

InitPrefix ==
    /\ pc = "prefix_pack"
    /\ tempDir = "exists"
    /\ errors = <<>>
    /\ \E x \in {"ok", "timeout"} :
          /\ attempts = extract_wcp(x, "ok").tried
          /\ warnings = extract_wcp(x, "ok").warns
    /\ verdict = "none"
    /\ exitCode = -1
    /\ tree = (P_profile :> "file") @@ (P_bin :> "dir") @@ (P_lib :> "dir")
                @@ (P_prefix :> "file")
    /\ wcpJson = "unread"
    /\ manifest \in {JObj(BaseWine), JObj(BaseProton)}
    /\ profile = manifest
    /\ readable = "unread"
    /\ members = <<>>
    /\ ran = [i \in 1..4 |-> [stage |-> Stages[i], ret |-> "True"]]
    /\ identifier = <<>>
    /\ idResult = [ok |-> FALSE, some |-> FALSE, parsed |-> NoParsed]
    /\ profResult = Returned(FALSE, <<>>)

ValidatePrefixPackDeep == PrefixPackStage(DeepArchives)

SpecPrefix == InitPrefix /\ [][ValidatePrefixPackDeep]_vars

-----------------------------------------------------------------------------
(* Properties *)

RanStage(st) == \E i \in 1..Len(ran) : ran[i].stage = st
StageReturned(st, r) == \E i \in 1..Len(ran) : ran[i].stage = st /\ ran[i].ret = r
ValidateFinished == pc \in {"returned", "exiting", "done"} /\ verdict # "none"

\* C1: whenever validate() has returned, its verdict is True exactly when
\* the errors list is empty, whatever the warnings hold; the exit code is 0
\* exactly when there are no errors; and no stage has returned False while
\* the errors list is empty.
C1_VerdictIffNoErrors ==
    /\ verdict # "none" => (verdict = "True" <=> errors = <<>>)
    /\ (pc \in {"exiting", "done"} /\ verdict # "none") => (exitCode = 0 <=> errors = <<>>)
    /\ \A i \in 1..Len(ran) : ran[i].ret = "False" => errors # <<>>

\* a run that passed with warnings and exited with 0
C1_Witness ==
    pc = "done" /\ verdict = "True" /\ exitCode = 0 /\ warnings # <<>> /\ errors = <<>>

\* C2 as stated: once the manifest passed schema validation, the structure
\* stage has run by the time validate() returns.
C2_StructureAlwaysRuns ==
    (pc = "returned" /\ profile.t = "obj") => RanStage("directory_structure")

\* C2 amended: a stage runs only if every stage before it returned True, so
\* the structure stage runs exactly when the file-tree stage and the
\* prefix-archive stage both returned success.
C2_StructureRunsIffEarlierPassed ==
    /\ \A i \in 1..Len(Stages), j \in 1..Len(Stages) :
          (i < j /\ RanStage(Stages[j])) => StageReturned(Stages[i], "True")
    /\ ValidateFinished =>
          (RanStage("directory_structure")
             <=> (StageReturned("wine_proton_files", "True")
                    /\ StageReturned("prefix_pack", "True")))

\* a schema-valid run that ended at the file-tree stage, and never reached
\* the structure stage
C2_Witness ==
    /\ pc = "returned" /\ profile.t = "obj"
    /\ StageReturned("wine_proton_files", "False")
    /\ ~RanStage("directory_structure")

\* C3: no stage lets an exception out of validate().
C3_NoFaultEscapes ==
    pc # "raised" /\ \A i \in 1..Len(ran) : ran[i].ret # "raised"

InsideScope ==
    {"validate", "extract", "check_profile", "profile_structure", "wine_proton_files",
     "prefix_pack", "directory_structure", "final", "returned", "exiting", "raised"}

\* C4: the scratch directory exists from the entry of the scope until
\* __exit__ (so during every stage and until validate() has finished, on a
\* normal return, on sys.exit and on an exception), and it is gone once any
\* run that entered the scope is over.
C4_ScratchDirScoped ==
    /\ pc \in InsideScope <=> tempDir = "exists"
    /\ pc = "main" => tempDir = "none"
    /\ pc = "done" =>
          tempDir = (IF verdict # "none" \/ ran # <<>> THEN "removed" ELSE "none")

\* a run in which a stage raised, over, with the directory removed
C4_Witness ==
    /\ pc = "done" /\ tempDir = "removed"
    /\ \E i \in 1..Len(ran) : ran[i].ret = "raised"

\* the new entries of a report
Added(old, new) == SubSeq(new, Len(old) + 1, Len(new))

UnderWine(m) == StartsWith(m, <<".","w","i","n","e","/">>)
OutsidePrefix(m) == m # <<".">> /\ ~StartsWith(m, <<".","/">>) /\ ~UnderWine(m)

\* C5: a step of the prefix stage that read the archive adds: nothing and
\* returns True when the archive is not empty and every member is under
\* .wine/; one warning and no error, returning True, when it has no
\* member; one error and no warning, returning False, when some member is
\* outside the prefix and none is under .wine/, the error quoting the first
\* min(5, n) of the n outside members in archive order.
C5_PrefixStageContribution ==
    [][(pc = "prefix_pack" /\ readable' = "yes") =>
        LET ms == members'
            de == Added(errors, errors')
            dw == Added(warnings, warnings')
            ret == ran'[Len(ran')].ret
            out == SelectSeq(ms, OutsidePrefix)
        IN /\ SubSeq(errors', 1, Len(errors)) = errors
           /\ SubSeq(warnings', 1, Len(warnings)) = warnings
           /\ (ms # <<>> /\ \A i \in 1..Len(ms) : UnderWine(ms[i]))
                => (de = <<>> /\ dw = <<>> /\ ret = "True")
           /\ ms = <<>> => (de = <<>> /\ Len(dw) = 1 /\ ret = "True")
           /\ (out # <<>> /\ \A i \in 1..Len(ms) : ~UnderWine(ms[i]))
                => /\ Len(de) = 1 /\ dw = <<>> /\ ret = "False"
                   /\ Len(de[1].detail) = (IF Len(out) < 5 THEN Len(out) ELSE 5)
                   /\ \A i \in 1..Len(de[1].detail) : de[1].detail[i] = out[i]
    ]_vars

\* an archive with more than five members outside the prefix was rejected
C5_Witness ==
    /\ readable = "yes" /\ StageReturned("prefix_pack", "False")
    /\ Len(SelectSeq(members, OutsidePrefix)) > 5
    /\ \E i \in 1..Len(members) : members[i] = M_etc
    /\ \E i \in 1..Len(members) : members[i] = M_usr

\* C6: when validate() passes for a Wine or Proton package, every member
\* of its prefix archive is ".", starts with "./" or starts with ".wine/".
C6_EveryMemberChecked ==
    (verdict = "True" /\ readable = "yes")
        => \A i \in 1..Len(members) : ~OutsidePrefix(members[i])

FailedAttempt(o) == o \in {"nonzero", "notfound", "timeout"}

\* C7: zstd is tried first and xz only after a failed zstd attempt; right
\* after _extract_wcp: zstd ok gives True with an empty report; zstd failed
\* (non-zero exit, failed invocation, timeout) and xz ok gives True with one
\* warning and no error; both failed gives False with one error naming zstd
\* and xz and no warning; no attempt makes the stage raise.
C7_CodecOrder ==
    Len(ran) >= 1 =>
        /\ ran[1].stage = "extract" /\ ran[1].ret # "raised"
        /\ attempts[1].codec = "zstd" /\ Len(attempts) <= 2
        /\ Len(attempts) = 2 => (attempts[2].codec = "xz" /\ FailedAttempt(attempts[1].outcome))
        /\ FailedAttempt(attempts[1].outcome) => Len(attempts) = 2
        /\ Len(ran) = 1 =>
            /\ attempts[1].outcome = "ok"
                 => (ran[1].ret = "True" /\ errors = <<>> /\ warnings = <<>>)
            /\ (Len(attempts) = 2 /\ attempts[2].outcome = "ok")
                 => /\ ran[1].ret = "True" /\ errors = <<>>
                    /\ Len(warnings) = 1 /\ warnings[1].kind = "xz_used"
            /\ (Len(attempts) = 2 /\ FailedAttempt(attempts[2].outcome))
                 => /\ ran[1].ret = "False" /\ warnings = <<>>
                    /\ Len(errors) = 1 /\ errors[1].kind = "extract_failed"
                    /\ errors[1].detail = <<"zstd", "xz">>

\* zstd timed out, xz succeeded, and the stage has just returned
C7_Witness ==
    /\ Len(ran) = 1 /\ Len(attempts) = 2
    /\ attempts[1].outcome = "timeout" /\ attempts[2].outcome = "ok"
    /\ pc = "check_profile"

FieldIndex(f) == CHOOSE i \in 1..Len(REQUIRED_FIELDS) : REQUIRED_FIELDS[i] = f

AbsentFields(m) == {f \in {REQUIRED_FIELDS[i] : i \in 1..Len(REQUIRED_FIELDS)} : f \notin DOMAIN m.o}

\* C8: for a manifest object lacking a non-empty set M of required fields,
\* validate_profile returns False with exactly one missing-field entry per
\* field of M, in the order of REQUIRED_FIELDS, and nothing else.
C8_MissingFieldsOnly ==
    (pc = "profile_done" /\ manifest.t = "obj" /\ AbsentFields(manifest) # {}) =>
        LET es == profResult.errors
        IN /\ ~profResult.raised /\ ~profResult.ok
           /\ Len(es) = Cardinality(AbsentFields(manifest))
           /\ \A i \in 1..Len(es) :
                 es[i].kind = "missing_field" /\ es[i].subject \in AbsentFields(manifest)
           /\ \A i \in 1..Len(es), j \in 1..Len(es) :
                 i < j => FieldIndex(es[i].subject) < FieldIndex(es[j].subject)

\* two fields are absent and the ones present are all wrong
C8_Witness ==
    /\ pc = "profile_done" /\ manifest.t = "obj"
    /\ AbsentFields(manifest) = {"type", "files"}
    /\ "wine" \in DOMAIN manifest.o /\ manifest.o["wine"].t = "num"
    /\ manifest.o["versionName"].t = "null"
    /\ Len(profResult.errors) = 2

\* C9: right after the file-tree stage on a schema-valid manifest: for
\* type Wine or Proton all three checks were made (the stage returned) and
\* the errors are one per failing check, naming section.field and the
\* declared path; for any other type nothing was added and it returned True.
C9_OneErrorPerFailingCheck ==
    (Len(ran) = 4 /\ ran[4].stage = "wine_proton_files") =>
        IF IsWineProton(Get(profile, "type"))
        THEN /\ ran[4].ret # "raised"
             /\ LET sec == SectionKey(Get(profile, "type"))
                    decl == profile.o[sec].o
                    fails == {f \in {"binPath", "libPath", "prefixPack"} :
                                IF f = "prefixPack" THEN tree[decl[f].s] # "file"
                                ELSE tree[decl[f].s] \notin {"dir", "emptydir"}}
                IN /\ Len(errors) = Cardinality(fails)
                   /\ \A f \in fails : \E i \in 1..Len(errors) :
                         errors[i].subject = sec \o "." \o f /\ errors[i].detail = decl[f].s
                   /\ ran[4].ret = (IF fails = {} THEN "True" ELSE "False")
        ELSE errors = <<>> /\ ran[4].ret = "True"

\* s in its entirety is <family>-<version>[-][<subversion>]-<arch>, the
\* version vl characters long and the hyphen after it present iff hy = 1;
\* the subversion is what lies between them and the last hyphen
SubLen(s, f, vl, hy, a) == Len(s) - (Len(Families[f]) + 1 + vl + hy + 1 + Len(Archs[a]))

FullForm(s, f, vl, hy, a) ==
    LET head == Families[f] \o HYPHEN
        v0 == Len(head) + 1
        s0 == v0 + vl + hy
        sl == SubLen(s, f, vl, hy, a)
    IN /\ sl >= 0
       /\ StartsWith(s, head)
       /\ \A j \in v0..(v0 + vl - 1) : IsVerChar(s[j])
       /\ hy = 1 => s[v0 + vl] = "-"
       /\ \A j \in s0..(s0 + sl - 1) : IsVerChar(s[j])
       /\ s[s0 + sl] = "-"
       /\ SubSeq(s, s0 + sl + 1, Len(s)) = Archs[a]

\* C10: validate_identifier returns (True, parsed) exactly for the strings
\* that in their entirety have the identifier form, parsed holding the
\* groups with the family in lower case; for any other string it returns
\* (False, None).
C10_AnchoredStartToEnd ==
    pc = "id_done" =>
        LET s == identifier
            forms == {q \in [f : 1..3, vl : 1..Len(s), hy : 0..1, a : 1..3] :
                        FullForm(s, q.f, q.vl, q.hy, q.a)}
        IN /\ idResult.ok <=> forms # {}
           /\ ~idResult.ok => (~idResult.some /\ idResult.parsed = NoParsed)
           /\ idResult.ok =>
                \E q \in forms :
                    /\ idResult.parsed.type = Lower(Families[q.f])
                    /\ idResult.parsed.arch = Archs[q.a]
                    /\ Len(idResult.parsed.version) = q.vl
                    /\ idResult.parsed.subversion.some <=> SubLen(s, q.f, q.vl, q.hy, q.a) > 0

\* what the package of the run is, read off what the stages were given:
\* the archive extracted, the manifest is schema-valid, the three declared
\* paths are there with the right kinds, every member of the prefix archive
\* is under .wine/, bin/, lib/ and share/ are there, and bin/ holds a known
\* binary and lib/ a known subdirectory with entries
Extracted == attempts # <<>> /\ attempts[Len(attempts)].outcome = "ok"

\* the manifests of the runs that validate_profile accepts
ValidProfiles ==
    {m \in Profiles : LET r == validate_profile(m) IN ~r.raised /\ r.ok}

SchemaValid == manifest \in ValidProfiles

DeclaredPathsPresent ==
    /\ ~GetRaises(Get(manifest, SectionKey(Get(manifest, "type"))))
    /\ \A i \in 1..3 :
          LET d == DeclaredPaths(manifest)[i]
          IN /\ d.value.t = "str"
             /\ d.value.s \in DOMAIN tree
             /\ ~CheckFails(d, tree[d.value.s])

FullyRooted ==
    /\ readable = "yes"
    /\ \A i \in 1..Len(members) : StartsWith(members[i], <<".","w","i","n","e","/">>)

ExpectedDirsPresent ==
    \A i \in 1..Len(expected_dirs) :
        expected_dirs[i] \in DOMAIN tree /\ IsDir(tree[expected_dirs[i]])

KnownBinaryPresent ==
    \E i \in 1..Len(critical_binaries) :
        /\ Join(P_bin, critical_binaries[i]) \in DOMAIN tree
        /\ Exists(tree[Join(P_bin, critical_binaries[i])])

KnownLibraryPresent ==
    \E i \in 1..Len(wine_subdirs) :
        /\ Join(P_lib, wine_subdirs[i]) \in DOMAIN tree
        /\ tree[Join(P_lib, wine_subdirs[i])] = "dir"

WellFormed ==
    /\ Extracted
    /\ ExpectedDirsPresent
    /\ KnownBinaryPresent
    /\ KnownLibraryPresent
    /\ SchemaValid
    /\ IsWineProton(Get(manifest, "type")) => (DeclaredPathsPresent /\ FullyRooted)

\* validate() went through without a fault and with an empty report, and
\* returns True
CleanPass ==
    /\ errors = <<>>
    /\ warnings = <<>>
    /\ pc # "raised"
    /\ pc = "final" \/ verdict = "True"

NoAdvisory ==
    /\ attempts[Len(attempts)].codec = "zstd"
    /\ IsWineProton(Get(manifest, "type")) => members # <<>>
    /\ wcpJson # "invalid"

====
